---- MODULE Spec2Model ----
(***************************************************************************)
(* Model of rand_scenario (src/src/norm.rs, src/src/lib.rs): generation of *)
(* normal random sequences from a change-point scenario, unconditionally   *)
(* (gen_random) or until an X-bar/s control chart signals                  *)
(* (gen_random_controlchart), and the parallel multi-seed batch            *)
(* (from_scenario_multiple, from_scenario_controlchart_multiple).          *)
(*                                                                         *)
(* The crates process_param (Scenario, Parameter, Mle), rand_mt (Mt64),    *)
(* rand (thread_rng) and rayon (par_iter/collect) are not part of the      *)
(* repository; they are modelled by their interface:                       *)
(*  - Mt64::new(seed) is a stream that is a function of the seed: `tape`   *)
(*    holds, per stream, the values produced so far; a value is chosen     *)
(*    when it is first read and is the same for every later reader;        *)
(*  - a Parameter is its mean, a sample is mean + stream value, the        *)
(*    estimate of a batch is the sum of its samples, estimation fails on   *)
(*    a batch without samples, and a chart is a pair of limits on it;      *)
(*  - thread_rng().next_u64() is any value of Seeds;                       *)
(*  - rayon's collect into a Result keeps the first error stored and may   *)
(*    skip items not yet started once an error is stored.                  *)
(***************************************************************************)
EXTENDS Integers, Sequences, FiniteSets, TLC

\* ---------------------------------------------------------------- bounds
\* the largest num of a batch, and the baseline passes one generation is
\* followed for
MaxNum == 2
MaxPasses == 2
\* the iterations of the last loop one generation is followed for: more
\* than the indices any scenario below defines
MaxSteps == 3

\* the values thread_rng().next_u64() takes here
Seeds == {0, 1}
Tasks == 1 .. MaxNum
\* streams: one per seed; a negative key is a stream seeded from somewhere
\* else than the seed, which the program never creates
StreamKeys == Seeds \cup {0 - t : t \in Tasks}
Noise == {0, 1}

None == [kind |-> "none"]

\* no seed conversion is followed on its own
NoConversion == [seed |-> <<>>, text |-> <<>>, stored |-> None, parsed |-> None]

\* no entry point of lib.rs runs: the batch operation is called directly
LibraryCall ==
    [fmt |-> "none", readable |-> TRUE, existed |-> FALSE, pc |-> "lib",
     dir |-> FALSE, seed_txt |-> FALSE, ledger |-> <<>>, control_limit |-> FALSE]

\* ------------------------------------------------------------- scenarios
\* process_param::norm::Scenario as this program uses it: the sample size n,
\* whether it decomposes, the in-control steps, the steps between the first
\* and the last change point, the steps the last change point defines, and
\* the control limits on a batch's estimate.
Sc(n, valid, inctrl, dec, lastLen, lastMu, lcl, ucl) ==
    [n |-> n, valid |-> valid, inctrl |-> inctrl, dec |-> dec,
     lastLen |-> lastLen, lastMu |-> lastMu, lcl |-> lcl, ucl |-> ucl]

Scenarios ==
    { Sc(1, TRUE, <<0>>, <<>>, 2, 0, 0, 0),
      Sc(1, TRUE, <<0>>, <<0, 0>>, 1, 1, 0, 0),
      Sc(1, TRUE, <<0, 1>>, <<2>>, 0, 2, 0, 1),
      Sc(2, TRUE, <<0>>, <<>>, 1, 1, 0, 2),
      Sc(1, TRUE, <<0>>, <<1>>, 0, 1, 0, 0),
      Sc(1, TRUE, <<0>>, <<>>, 0, 0, 0, 0),
      Sc(1, TRUE, <<>>, <<>>, 0, 0, 0, 0),
      Sc(0, TRUE, <<0>>, <<0>>, 1, 1, 0, 0),
      Sc(0, TRUE, <<>>, <<0>>, 1, 1, 0, 0),
      Sc(0, TRUE, <<>>, <<>>, 1, 1, 0, 0),
      Sc(-1, TRUE, <<0>>, <<0>>, 1, 1, 0, 0),
      Sc(1, FALSE, <<0>>, <<0>>, 1, 1, 0, 0) }

VARIABLES mode, scenario, num, seeds, bpc, tpc, rngpos, randoms, randoms_dec,
          ind_outctrl, passes, tret, tape, saved_error, first_done, first_err,
          result, files, rs_read, run, conv

vars == <<mode, scenario, num, seeds, bpc, tpc, rngpos, randoms, randoms_dec,
          ind_outctrl, passes, tret, tape, saved_error, first_done, first_err,
          result, files, rs_read, run, conv>>

\* ------------------------------------------------------- pure operators
RECURSIVE Sum(_)
Sum(s) == IF s = <<>> THEN 0 ELSE Head(s) + Sum(Tail(s))

RECURSIVE SeqsOfLen(_, _)
SeqsOfLen(S, k) ==
    IF k <= 0 THEN {<<>>}
    ELSE {Append(s, x) : s \in SeqsOfLen(S, k - 1), x \in S}

Max(a, b) == IF a >= b THEN a ELSE b

\* Scenario::decomplession: every step's parameter, in time order
Decomplession(sc) ==
    IF ~sc.valid THEN [ok |-> FALSE]
    ELSE [ok |-> TRUE,
          params |-> sc.inctrl \o sc.dec \o [k \in 1 .. sc.lastLen |-> sc.lastMu]]

\* Scenario::decomp_exclude_last: (inctrl_param, dec_param, last_cp)
DecompExcludeLast(sc) ==
    IF ~sc.valid THEN [ok |-> FALSE]
    ELSE [ok |-> TRUE, inctrl_param |-> sc.inctrl, dec_param |-> sc.dec]

\* a last change point that defines every index
GetParamAny(sc, ind) == [ok |-> TRUE, param |-> sc.lastMu]

\* last_cp.get_param(ind): defined for 1 .. lastLen
GetParam(sc, ind) ==
    IF ind >= 1 /\ ind <= sc.lastLen THEN [ok |-> TRUE, param |-> sc.lastMu]
    ELSE [ok |-> FALSE]

\* a conversion that is one too large
NAsUsizePlusOne(sc) == IF sc.n < 0 THEN [ok |-> FALSE] ELSE [ok |-> TRUE, n |-> sc.n + 1]

\* usize::try_from(scenario.n()) / scenario.n_as_usize()
NAsUsize(sc) == IF sc.n < 0 THEN [ok |-> FALSE] ELSE [ok |-> TRUE, n |-> sc.n]

\* Parameter::rand_with_n(parameter, &mut rng, n): n samples read from the
\* stream tp starting after position pos
RandWithN(parameter, tp, pos, n) == [j \in 1 .. n |-> parameter + tp[pos + j]]

\* the same map stopping one step early
MapRandWithNShort(params, tp, pos, n) ==
    [k \in 1 .. (Len(params) - 1) |-> RandWithN(params[k], tp, pos + (k - 1) * n, n)]

\* params.iter().map(|parameter| rand_with_n(parameter, &mut rng, n)).collect()
MapRandWithN(params, tp, pos, n) ==
    [k \in 1 .. Len(params) |-> RandWithN(params[k], tp, pos + (k - 1) * n, n)]

\* Mle::mle: the estimate of one batch, an error for a batch with no sample
Mle(batch) ==
    IF Len(batch) = 0 THEN [ok |-> FALSE] ELSE [ok |-> TRUE, est |-> Sum(batch)]

\* Mle::mle_all: the estimates of all batches, an error if one fails
MleAll(batches) ==
    IF \E k \in 1 .. Len(batches) : ~Mle(batches[k]).ok THEN [ok |-> FALSE]
    ELSE [ok |-> TRUE, ests |-> [k \in 1 .. Len(batches) |-> Mle(batches[k]).est]]

\* Scenario::in_control / out_of_control / in_control_all / index_out_of_control
InControl(sc, est) == sc.lcl <= est /\ est <= sc.ucl
OutOfControl(sc, est) == ~InControl(sc, est)
InControlAll(sc, ests) == \A k \in 1 .. Len(ests) : InControl(sc, ests[k])
\* a search that finds nothing
IndexOutOfControlNone(sc, ests) == 0

\* 1-based position of the first estimate out of control, 0 for None
IndexOutOfControl(sc, ests) ==
    IF \A k \in 1 .. Len(ests) : ~OutOfControl(sc, ests[k]) THEN 0
    ELSE CHOOSE k \in 1 .. Len(ests) :
             /\ OutOfControl(sc, ests[k])
             /\ \A m \in 1 .. (k - 1) : ~OutOfControl(sc, ests[m])

\* ------------------------------------------------------------ the state
\*  mode         which batch operation runs: "plain" is from_scenario_multiple,
\*               "chart" is from_scenario_controlchart_multiple
\*  seeds        the seeds drawn so far, in draw order
\*  bpc          the batch: "seed" (drawing), "par" (tasks run), "done"
\*  tpc[t]       task t: "idle", "baseline", "prefinal", "post", "ok", "err",
\*               "skipped"
\*  rngpos[t]    values task t's stream has produced
\*  randoms[t], randoms_dec[t], ind_outctrl[t]   the locals of the generation
\*  passes[t]    baseline passes task t has made
\*  tret[t]      what task t returned
\*  tape[key]    the values of stream key read so far
\*  saved_error  the error the parallel collect has stored
\*  first_done   the task that returned first, 0 while none has
\*  first_err    the task that returned an error first, 0 while none has
\*  result       what the batch operation returned
\*  files        the TOML files written for the batch, in file order
\*  rs_read      what the last from_toml returned, and for which file
\*  run          the entry point of lib.rs that runs, if one does: its output
\*               format (fmt), whether the scenario file can be read and
\*               whether dir_out existed before the run, where the entry
\*               point is (pc), whether it has created dir_out and seed.txt,
\*               the records of seed.txt, and whether controlLimit.txt is
\*               written. With an entry point running, files holds the
\*               artifacts it has written, in file order.
\*  conv         a seed on its way through the text of a file, when the seed
\*               conversions are followed on their own: the seed, a text to
\*               read, the text written for the seed, and what was read

Init ==
    /\ mode \in {"plain", "chart"}
    /\ scenario \in Scenarios
    /\ num \in 0 .. MaxNum
    /\ seeds = <<>>
    /\ bpc = "seed"
    /\ tpc = [t \in Tasks |-> "idle"]
    /\ rngpos = [t \in Tasks |-> 0]
    /\ randoms = [t \in Tasks |-> <<>>]
    /\ randoms_dec = [t \in Tasks |-> <<>>]
    /\ ind_outctrl = [t \in Tasks |-> 0]
    /\ passes = [t \in Tasks |-> 0]
    /\ tret = [t \in Tasks |-> None]
    /\ tape = [k \in StreamKeys |-> <<>>]
    /\ saved_error = None
    /\ first_done = 0
    /\ first_err = 0
    /\ result = None
    /\ files = <<>>
    /\ rs_read = None
    /\ run = LibraryCall
    /\ conv = NoConversion

\* a stream that does not come from the seed
StreamOfEntropy(t) == 0 - t

\* Mt64::new(seed): the stream a task reads is the one of its seed
StreamOf(t) == seeds[t]

\* a generator started again for every draw
DrawFromStart(t) == 0

\* a generator handed on from the task before: a draw starts where the last
\* draw of that task ended
DrawFromNeighbour(t) == rngpos[IF t = 1 THEN 1 ELSE t - 1]

\* &mut rng: a draw starts where the last draw of the generation ended
DrawFrom(t) == rngpos[t]

\* the values a read of k values after position pos adds to stream key
Fresh(key, pos, k) == SeqsOfLen(Noise, Max(0, pos + k - Len(tape[key])))

\* Ok(RandomScenario{scenario, seed, random_variables}) of task t
OkOf(t, rv) ==
    [kind |-> "ok", scenario |-> scenario, seed |-> seeds[t], random_variables |-> rv]

\* Err(ScenarioError{..}) of task t
ErrOf(t, what) == [kind |-> "err", error |-> what, task |-> t]

\* a collect that keeps the last error instead of the first
SaveErrorLast(saved, ret) == IF ret.kind = "err" THEN ret ELSE saved

\* collect into a Result: an error is stored if none is stored yet
SaveError(saved, ret) ==
    IF ret.kind = "err" /\ saved = None THEN ret ELSE saved

\* task t returns ret
Return(t, ret) ==
    /\ tpc' = [tpc EXCEPT ![t] = ret.kind]
    /\ tret' = [tret EXCEPT ![t] = ret]
    /\ first_done' = IF first_done = 0 THEN t ELSE first_done
    /\ first_err' = IF ret.kind = "err" /\ first_err = 0 THEN t ELSE first_err
    /\ saved_error' = SaveError(saved_error, ret)

\* the batch operation has been called: directly, or by an entry point of
\* lib.rs that has reached its call
BatchCalled == run.pc \in {"lib", "batch"}

\* dispatch as soon as one seed is drawn
SeedsDrawnOne == Len(seeds) >= 1

\* for _i in 0..num: the loop has pushed num seeds
SeedsDrawn == Len(seeds) = num

\* seeds.push(rng_for_seed.next_u64())
DrawSeed ==
    /\ BatchCalled
    /\ bpc = "seed"
    /\ Len(seeds) < num
    /\ \E s \in Seeds : seeds' = Append(seeds, s)
    /\ UNCHANGED <<mode, scenario, num, bpc, tpc, rngpos, randoms, randoms_dec,
                   ind_outctrl, passes, tret, tape, saved_error, first_done,
                   first_err, result, files, rs_read, run, conv>>

\* seeds.par_iter(): the tasks may start once every seed is drawn
Dispatch ==
    /\ BatchCalled
    /\ bpc = "seed"
    /\ SeedsDrawn
    /\ bpc' = "par"
    /\ UNCHANGED <<mode, scenario, num, seeds, tpc, rngpos, randoms, randoms_dec,
                   ind_outctrl, passes, tret, tape, saved_error, first_done,
                   first_err, result, files, rs_read, run, conv>>

\* from_scenario_seed -> gen_random, the whole call
GenRandom(t) ==
    /\ bpc = "par" /\ mode = "plain" /\ t \in 1 .. Len(seeds) /\ tpc[t] = "idle"
    /\ LET d == Decomplession(scenario)
           nn == NAsUsize(scenario)
           key == StreamOf(t)
       IN  IF ~d.ok THEN
               /\ Return(t, ErrOf(t, "decomp"))
               /\ UNCHANGED <<rngpos, randoms, tape>>
           ELSE IF ~nn.ok THEN
               /\ Return(t, ErrOf(t, "n"))
               /\ UNCHANGED <<rngpos, randoms, tape>>
           ELSE
               \E ext \in Fresh(key, 0, Len(d.params) * nn.n) :
                   LET tp == tape[key] \o ext
                       rv == MapRandWithN(d.params, tp, 0, nn.n)
                   IN  /\ tape' = [tape EXCEPT ![key] = tp]
                       /\ rngpos' = [rngpos EXCEPT ![t] = Len(d.params) * nn.n]
                       /\ randoms' = [randoms EXCEPT ![t] = rv]
                       /\ Return(t, OkOf(t, rv))
    /\ UNCHANGED <<mode, scenario, num, seeds, bpc, randoms_dec, ind_outctrl,
                   passes, result,
                   files, rs_read, run, conv>>

\* from_scenario_seed_controlchart -> gen_random_controlchart, up to the
\* first loop
ChartBegin(t) ==
    /\ bpc = "par" /\ mode = "chart" /\ t \in 1 .. Len(seeds) /\ tpc[t] = "idle"
    /\ LET d == DecompExcludeLast(scenario)
           nn == NAsUsize(scenario)
       IN  IF ~d.ok THEN Return(t, ErrOf(t, "decomp"))
           ELSE IF ~nn.ok THEN Return(t, ErrOf(t, "n"))
           ELSE /\ tpc' = [tpc EXCEPT ![t] = "baseline"]
                /\ UNCHANGED <<tret, first_done, first_err, saved_error>>
    /\ UNCHANGED <<mode, scenario, num, seeds, bpc, rngpos, randoms, randoms_dec,
                   ind_outctrl, passes, tape, result, files, rs_read, run, conv>>

\* a test that one step in control is enough
BaselineAcceptedAny(sc, ests) == \E k \in 1 .. Len(ests) : InControl(sc, ests[k])

\* line 270: the baseline pass is kept
BaselineAccepted(sc, ests) == InControlAll(sc, ests)

\* a pass whose estimation fails is drawn again
BaselineOutcomeRetryMle(t, m) ==
    IF ~m.ok THEN "baseline"
    ELSE IF BaselineAccepted(scenario, m.ests) THEN "prefinal" ELSE "baseline"

\* a second rejected pass is an error
BaselineOutcomeCapped(t, m) ==
    IF ~m.ok THEN "err"
    ELSE IF BaselineAccepted(scenario, m.ests) THEN "prefinal"
    ELSE IF passes[t] >= 1 THEN "err" ELSE "baseline"

\* lines 264-273: where the pass leaves the generation: returning the
\* estimation error, after the loop, or at the start of the loop again
BaselineOutcome(t, m) ==
    IF ~m.ok THEN "err"
    ELSE IF BaselineAccepted(scenario, m.ests) THEN "prefinal" ELSE "baseline"

\* the pass is added to the passes before it
AssignPassAppend(old, rs) == old \o rs

\* randoms = ...collect(): the pass replaces what randoms held
AssignPass(old, rs) == rs

\* one iteration of the first loop
BaselinePass(t) ==
    /\ bpc = "par" /\ tpc[t] = "baseline" /\ passes[t] < MaxPasses
    /\ LET d == DecompExcludeLast(scenario)
           n == NAsUsize(scenario).n
           key == StreamOf(t)
           pos == DrawFrom(t)
       IN  \E ext \in Fresh(key, pos, Len(d.inctrl_param) * n) :
               LET tp == tape[key] \o ext
                   rs == MapRandWithN(d.inctrl_param, tp, pos, n)
                   m == MleAll(rs)
               IN  /\ tape' = [tape EXCEPT ![key] = tp]
                   /\ rngpos' = [rngpos EXCEPT ![t] = pos + Len(d.inctrl_param) * n]
                   /\ randoms' = [randoms EXCEPT ![t] = AssignPass(@, rs)]
                   /\ passes' = [passes EXCEPT ![t] = @ + 1]
                   /\ IF BaselineOutcome(t, m) = "err"
                      THEN Return(t, ErrOf(t, "mle"))
                      ELSE /\ tpc' = [tpc EXCEPT ![t] = BaselineOutcome(t, m)]
                           /\ UNCHANGED <<tret, first_done, first_err, saved_error>>
    /\ UNCHANGED <<mode, scenario, num, seeds, bpc, randoms_dec, ind_outctrl, result,
                   files, rs_read, run, conv>>

\* randoms_dec[..i]: the signalling step left out
BeforeFirstSignal(rdec, i) == SubSeq(rdec, 1, i - 1)

\* randoms_dec[..=i], i counted from 1 here
UpToFirstSignal(rdec, i) == SubSeq(rdec, 1, i)

\* lines 276-293: the steps before the last change point
PreFinalScan(t) ==
    /\ bpc = "par" /\ tpc[t] = "prefinal"
    /\ LET d == DecompExcludeLast(scenario)
           n == NAsUsize(scenario).n
           key == StreamOf(t)
           pos == DrawFrom(t)
       IN  \E ext \in Fresh(key, pos, Len(d.dec_param) * n) :
               LET tp == tape[key] \o ext
                   rdec == MapRandWithN(d.dec_param, tp, pos, n)
                   m == MleAll(rdec)
                   i == IndexOutOfControl(scenario, m.ests)
               IN  /\ tape' = [tape EXCEPT ![key] = tp]
                   /\ rngpos' = [rngpos EXCEPT ![t] = pos + Len(d.dec_param) * n]
                   /\ IF ~m.ok THEN
                          /\ Return(t, ErrOf(t, "mle"))
                          /\ randoms_dec' = [randoms_dec EXCEPT ![t] = rdec]
                          /\ UNCHANGED randoms
                      ELSE IF i = 0 THEN
                          \* randoms.append(&mut randoms_dec) empties randoms_dec
                          /\ randoms' = [randoms EXCEPT ![t] = @ \o rdec]
                          /\ randoms_dec' = [randoms_dec EXCEPT ![t] = <<>>]
                          /\ tpc' = [tpc EXCEPT ![t] = "post"]
                          /\ UNCHANGED <<tret, first_done, first_err, saved_error>>
                      ELSE
                          /\ randoms' = [randoms EXCEPT ![t] = @ \o UpToFirstSignal(rdec, i)]
                          /\ randoms_dec' = [randoms_dec EXCEPT ![t] = rdec]
                          /\ Return(t, OkOf(t, randoms'[t]))
    /\ UNCHANGED <<mode, scenario, num, seeds, bpc, ind_outctrl, passes, result,
                   files, rs_read, run, conv>>

\* the test of line 313 inverted
SignalledInControl(sc, est) == InControl(sc, est)

\* line 313: the chart signals on the step just drawn
Signalled(sc, est) == OutOfControl(sc, est)

\* a counter that is not advanced
NextIndSame(ind) == ind

\* ind_outctrl = ind_outctrl + 1
NextInd(ind) == ind + 1

\* one iteration of the last loop
PostStep(t) ==
    /\ bpc = "par" /\ tpc[t] = "post" /\ ind_outctrl[t] < MaxSteps
    /\ LET n == NAsUsize(scenario).n
           key == StreamOf(t)
           pos == DrawFrom(t)
           ind == NextInd(ind_outctrl[t])
           p == GetParam(scenario, ind)
       IN  /\ ind_outctrl' = [ind_outctrl EXCEPT ![t] = ind]
           /\ IF ~p.ok THEN
                  /\ Return(t, ErrOf(t, "range"))
                  /\ UNCHANGED <<rngpos, randoms, tape>>
              ELSE
                  \E ext \in Fresh(key, pos, n) :
                      LET tp == tape[key] \o ext
                          rand_ind == RandWithN(p.param, tp, pos, n)
                          mle_ind == Mle(rand_ind)
                      IN  /\ tape' = [tape EXCEPT ![key] = tp]
                          /\ rngpos' = [rngpos EXCEPT ![t] = pos + n]
                          /\ IF ~mle_ind.ok THEN
                                 /\ Return(t, ErrOf(t, "mle"))
                                 /\ UNCHANGED randoms
                             ELSE
                                 /\ randoms' = [randoms EXCEPT ![t] = Append(@, rand_ind)]
                                 /\ IF Signalled(scenario, mle_ind.est)
                                    THEN Return(t, OkOf(t, randoms'[t]))
                                    ELSE UNCHANGED <<tpc, tret, first_done, first_err, saved_error>>
    /\ UNCHANGED <<mode, scenario, num, seeds, bpc, randoms_dec, passes, result,
                   files, rs_read, run, conv>>

\* an item is dropped whether it has started or not
NotFinished(t) == tpc[t] \in {"idle", "baseline", "prefinal", "post"}

\* the map closure has not been called on the item
NotStarted(t) == tpc[t] = "idle"

\* rayon: once an error is stored, an item not yet started may be dropped
Skip(t) ==
    /\ bpc = "par" /\ t \in 1 .. Len(seeds) /\ NotStarted(t)
    /\ saved_error # None
    /\ tpc' = [tpc EXCEPT ![t] = "skipped"]
    /\ UNCHANGED <<mode, scenario, num, seeds, bpc, rngpos, randoms, randoms_dec,
                   ind_outctrl, passes, tret, tape, saved_error, first_done,
                   first_err, result, files, rs_read, run, conv>>

\* a collect that puts the result that arrived first in front
CollectedByArrival(n, rets, err) ==
    IF err # None THEN [kind |-> "err", error |-> err]
    ELSE [kind |-> "ok",
          list |-> [i \in 1 .. n |-> IF i = 1 THEN rets[first_done]
                                     ELSE IF i = first_done THEN rets[1]
                                     ELSE rets[i]]]

\* a collect that returns the results of the tasks that succeeded
IsOk(ret) == ret.kind = "ok"
CollectedPartial(n, rets, err) ==
    [kind |-> "ok", list |-> SelectSeq([i \in 1 .. n |-> rets[i]], IsOk)]

\* .collect::<Result<Vec<Self>, ScenarioError>>(): the stored error, or the
\* results in the order of the seeds
Collected(n, rets, err) ==
    IF err # None THEN [kind |-> "err", error |-> err]
    ELSE [kind |-> "ok", list |-> [i \in 1 .. n |-> rets[i]]]

Collect ==
    /\ bpc = "par"
    /\ \A t \in 1 .. Len(seeds) : tpc[t] \in {"ok", "err", "skipped"}
    /\ result' = Collected(Len(seeds), tret, saved_error)
    /\ bpc' = "done"
    /\ UNCHANGED <<mode, scenario, num, seeds, tpc, rngpos, randoms, randoms_dec,
                   ind_outctrl, passes, tret, tape, saved_error, first_done,
                   first_err, files, rs_read, run, conv>>

\* ------------------------------------------- a generation on its own
\* from_scenario_seed and from_scenario_seed_controlchart called alone, as
\* functions of the scenario and of the values tp that Mt64::new(seed)
\* produces. The outcome is "more" when tp ends before the generation does.
Outcome(random_variables) == [kind |-> "ok", random_variables |-> random_variables]
Failure(what) == [kind |-> "err", error |-> what]
More == [kind |-> "more"]

\* gen_random
GenRandomAlone(sc, tp) ==
    LET d == Decomplession(sc)
        nn == NAsUsize(sc)
    IN  IF ~d.ok THEN Failure("decomp")
        ELSE IF ~nn.ok THEN Failure("n")
        ELSE IF Len(tp) < Len(d.params) * nn.n THEN More
        ELSE Outcome(MapRandWithN(d.params, tp, 0, nn.n))

\* the first loop of gen_random_controlchart, its next pass drawn after pos
RECURSIVE FirstLoopAlone(_, _, _)
FirstLoopAlone(sc, tp, pos) ==
    LET inctrl_param == DecompExcludeLast(sc).inctrl_param
        n == NAsUsize(sc).n
        end == pos + Len(inctrl_param) * n
    IN  IF Len(tp) < end THEN More
        ELSE LET rs == MapRandWithN(inctrl_param, tp, pos, n)
                 m == MleAll(rs)
             IN  IF ~m.ok THEN Failure("mle")
                 ELSE IF InControlAll(sc, m.ests)
                      THEN [kind |-> "break", randoms |-> rs, pos |-> end]
                      ELSE FirstLoopAlone(sc, tp, end)

\* the last loop of gen_random_controlchart, after done iterations
RECURSIVE LastLoopAlone(_, _, _, _, _)
LastLoopAlone(sc, tp, pos, done, rs) ==
    LET n == NAsUsize(sc).n
        ind == done + 1
        p == GetParam(sc, ind)
    IN  IF ~p.ok THEN Failure("range")
        ELSE IF Len(tp) < pos + n THEN More
        ELSE LET rand_ind == RandWithN(p.param, tp, pos, n)
                 mle_ind == Mle(rand_ind)
             IN  IF ~mle_ind.ok THEN Failure("mle")
                 ELSE IF OutOfControl(sc, mle_ind.est)
                      THEN Outcome(Append(rs, rand_ind))
                      ELSE LastLoopAlone(sc, tp, pos + n, ind, Append(rs, rand_ind))

\* gen_random_controlchart
GenRandomControlchartAlone(sc, tp) ==
    LET d == DecompExcludeLast(sc)
        nn == NAsUsize(sc)
    IN  IF ~d.ok THEN Failure("decomp")
        ELSE IF ~nn.ok THEN Failure("n")
        ELSE LET first == FirstLoopAlone(sc, tp, 0)
             IN  IF first.kind # "break" THEN first
                 ELSE IF Len(tp) < first.pos + Len(d.dec_param) * nn.n THEN More
                 ELSE LET rdec == MapRandWithN(d.dec_param, tp, first.pos, nn.n)
                          m == MleAll(rdec)
                          i == IndexOutOfControl(sc, m.ests)
                      IN  IF ~m.ok THEN Failure("mle")
                          ELSE IF i # 0
                               THEN Outcome(first.randoms \o SubSeq(rdec, 1, i))
                               ELSE LastLoopAlone(sc, tp,
                                        first.pos + Len(d.dec_param) * nn.n, 0,
                                        first.randoms \o rdec)

\* the generation of the mode md
Alone(md, sc, tp) ==
    IF md = "plain" THEN GenRandomAlone(sc, tp) ELSE GenRandomControlchartAlone(sc, tp)

\* ------------------------------------------------------ structured text
\* A TOML document is a sequence of lines: key = value lines and [table]
\* headers. A number is written in decimal digits, a seed as a quoted string
\* of digits, a sample as digits followed by ".0".
RECURSIVE Digits(_)
Digits(v) == IF v < 10 THEN <<v>> ELSE Append(Digits(v \div 10), v % 10)

RECURSIVE DigitsValue(_)
DigitsValue(ds) ==
    IF ds = <<>> THEN 0 ELSE 10 * DigitsValue(SubSeq(ds, 1, Len(ds) - 1)) + ds[Len(ds)]

Kv(key, val) == [tag |-> "kv", key |-> key, val |-> val]
Header(name) == [tag |-> "hdr", key |-> name, val |-> [ty |-> "none"]]
IntText(v) == [ty |-> "int", d |-> Digits(v)]
FloatText(v) == [ty |-> "float", d |-> Digits(v), frac |-> <<0>>]
StrText(ds) == [ty |-> "str", s |-> ds]
ArrText(a) == [ty |-> "arr", a |-> a]

\* ------------------------------------------------------ a seed as text
\* pub type Seed = u64. Where the width matters a seed is four limbs of 16
\* bits, the most significant first; the seeds of a batch above are small
\* numbers and U64OfInt gives their limbs. A text is a sequence of
\* characters: 0 .. 9 are the decimal digits, 10 is '+', 11 is '-' and 12 is
\* any other character.
SeedBits == 64
Base == 2 ^ 16
NumLimbs == SeedBits \div 16

U64OfInt(v) == [k \in 1 .. NumLimbs |->
                   IF k = NumLimbs THEN v % Base
                   ELSE IF k = NumLimbs - 1 THEN v \div Base ELSE 0]
IntOfU64(x) == x[NumLimbs - 1] * Base + x[NumLimbs]

\* x * m + a on the limbs from the k-th down to the first, carry coming in:
\* the limbs of the result and the carry out of the most significant one
RECURSIVE MulAdd(_, _, _, _)
MulAdd(x, k, m, carry) ==
    IF k = 0 THEN [limbs |-> x, carry |-> carry]
    ELSE LET cur == x[k] * m + carry
         IN  MulAdd([x EXCEPT ![k] = cur % Base], k - 1, m, cur \div Base)

\* a multiplication that drops the carry
WrappingMul(x, m) == [ok |-> TRUE, value |-> MulAdd(x, NumLimbs, m, 0).limbs]

\* u64::checked_mul: None when the product does not fit
CheckedMul(x, m) ==
    LET r == MulAdd(x, NumLimbs, m, 0)
    IN  IF r.carry # 0 THEN [ok |-> FALSE] ELSE [ok |-> TRUE, value |-> r.limbs]

\* u64::checked_add: None when the sum does not fit
CheckedAdd(x, a) ==
    LET r == MulAdd(x, NumLimbs, 1, a)
    IN  IF r.carry # 0 THEN [ok |-> FALSE] ELSE [ok |-> TRUE, value |-> r.limbs]

\* x / 10 and x % 10, the limbs from the k-th on still to divide
RECURSIVE DivMod10(_, _, _)
DivMod10(x, k, rem) ==
    IF k > NumLimbs THEN [quot |-> x, rem |-> rem]
    ELSE LET cur == rem * Base + x[k]
         IN  DivMod10([x EXCEPT ![k] = cur \div 10], k + 1, cur % 10)

\* format!("{}", seed): the decimal digits of a u64
RECURSIVE U64ToString(_)
U64ToString(x) ==
    LET d == DivMod10(x, 1, 0)
    IN  IF d.quot = U64OfInt(0) THEN <<d.rem>>
        ELSE Append(U64ToString(d.quot), d.rem)

\* the loop of u64::from_str over the characters after the sign
RECURSIVE Accumulate(_, _)
Accumulate(acc, digits) ==
    IF digits = <<>> THEN [ok |-> TRUE, value |-> acc]
    ELSE IF Head(digits) \notin 0 .. 9 THEN [ok |-> FALSE, error |-> "InvalidDigit"]
    ELSE LET mul == CheckedMul(acc, 10)
         IN  IF ~mul.ok THEN [ok |-> FALSE, error |-> "PosOverflow"]
             ELSE LET add == CheckedAdd(mul.value, Head(digits))
                  IN  IF ~add.ok THEN [ok |-> FALSE, error |-> "PosOverflow"]
                      ELSE Accumulate(add.value, Tail(digits))

\* u64::from_str: an optional '+', then decimal digits of a value that fits
U64FromStr(src) ==
    IF src = <<>> THEN [ok |-> FALSE, error |-> "Empty"]
    ELSE LET digits == IF Head(src) = 10 THEN Tail(src) ELSE src
         IN  IF digits = <<>> THEN [ok |-> FALSE, error |-> "InvalidDigit"]
             ELSE Accumulate(U64OfInt(0), digits)

\* Scenario::to_toml_string: the scenario's fields, one line each
ScenarioToTomlString(sc) ==
    << Kv("n", IntText(sc.n)),
       Kv("inctrl", ArrText([k \in 1 .. Len(sc.inctrl) |-> IntText(sc.inctrl[k])])),
       Kv("dec", ArrText([k \in 1 .. Len(sc.dec) |-> IntText(sc.dec[k])])),
       Kv("lastLen", IntText(sc.lastLen)),
       Kv("lastMu", IntText(sc.lastMu)),
       Kv("lcl", IntText(sc.lcl)),
       Kv("ucl", IntText(sc.ucl)) >>

\* rands_to_toml_string: toml::to_string(&StrRandValToml{random_variables})
RandsToTomlString(rv) ==
    << Kv("random_variables",
          ArrText([k \in 1 .. Len(rv) |->
                      ArrText([j \in 1 .. Len(rv[k]) |-> FloatText(rv[k][j])])])) >>

\* a document with the seed under the [scenario] header
ToTomlStringSeedInTable(r) ==
    RandsToTomlString(r.random_variables)
        \o <<Header("scenario")>>
        \o <<Kv("seed", StrText(Digits(r.seed)))>>
        \o ScenarioToTomlString(r.scenario)

\* to_toml_string: format!("seed = \"{}\"\n{}\n\n[scenario]\n{}", ..)
ToTomlString(r) ==
    <<Kv("seed", StrText(U64ToString(U64OfInt(r.seed))))>>
        \o RandsToTomlString(r.random_variables)
        \o <<Header("scenario")>>
        \o ScenarioToTomlString(r.scenario)

\* the lines of a document before its first header
RECURSIVE TopLevel(_)
TopLevel(doc) ==
    IF doc = <<>> \/ Head(doc).tag = "hdr" THEN <<>>
    ELSE <<Head(doc)>> \o TopLevel(Tail(doc))

\* the lines of the table called name: those after its header, up to the next
RECURSIVE TableOf(_, _)
TableOf(doc, name) ==
    IF doc = <<>> THEN <<>>
    ELSE IF Head(doc).tag = "hdr" /\ Head(doc).key = name THEN TopLevel(Tail(doc))
    ELSE TableOf(Tail(doc), name)

HasTable(doc, name) == \E k \in 1 .. Len(doc) : doc[k].tag = "hdr" /\ doc[k].key = name
HasKey(lines, key) == \E k \in 1 .. Len(lines) : lines[k].key = key
ValueOf(lines, key) == lines[CHOOSE k \in 1 .. Len(lines) : lines[k].key = key].val

\* toml::from_str::<RandomScenarioToml>: the three fields, with their types
FromStr(doc) ==
    LET top == TopLevel(doc)
    IN  IF /\ HasKey(top, "seed") /\ ValueOf(top, "seed").ty = "str"
           /\ HasKey(top, "random_variables")
           /\ ValueOf(top, "random_variables").ty = "arr"
           /\ \A k \in 1 .. Len(ValueOf(top, "random_variables").a) :
                  LET row == ValueOf(top, "random_variables").a[k]
                  IN  row.ty = "arr" /\ \A j \in 1 .. Len(row.a) : row.a[j].ty = "float"
           /\ HasTable(doc, "scenario")
        THEN [ok |-> TRUE,
              seed |-> ValueOf(top, "seed").s,
              random_variables |->
                  [k \in 1 .. Len(ValueOf(top, "random_variables").a) |->
                      [j \in 1 .. Len(ValueOf(top, "random_variables").a[k].a) |->
                          DigitsValue(ValueOf(top, "random_variables").a[k].a[j].d)]],
              scenario |-> TableOf(doc, "scenario")]
        ELSE [ok |-> FALSE]

\* Seed::from_str(&file_toml.seed), for the seeds of a batch
SeedFromStr(ds) ==
    IF U64FromStr(ds).ok
    THEN [ok |-> TRUE, seed |-> IntOfU64(U64FromStr(ds).value)] ELSE [ok |-> FALSE]

\* toml::to_string(&file_toml.scenario), then Scenario::parse_toml_str
ScenarioParseTomlStr(table) ==
    LET keys == {"n", "inctrl", "dec", "lastLen", "lastMu", "lcl", "ucl"}
        int(key) == DigitsValue(ValueOf(table, key).d)
        arr(key) == [k \in 1 .. Len(ValueOf(table, key).a) |->
                        DigitsValue(ValueOf(table, key).a[k].d)]
    IN  IF \A key \in keys : HasKey(table, key)
        THEN [ok |-> TRUE,
              scenario |-> Sc(int("n"), TRUE, arr("inctrl"), arr("dec"),
                              int("lastLen"), int("lastMu"), int("lcl"), int("ucl"))]
        ELSE [ok |-> FALSE]

\* parse_toml_str
ParseTomlStr(toml_str) ==
    LET file_toml == FromStr(toml_str)
    IN  IF ~file_toml.ok THEN [kind |-> "err", error |-> "toml"]
        ELSE IF ~SeedFromStr(file_toml.seed).ok THEN [kind |-> "err", error |-> "seed"]
        ELSE IF ~ScenarioParseTomlStr(file_toml.scenario).ok
             THEN [kind |-> "err", error |-> "scenario"]
        ELSE [kind |-> "ok",
              scenario |-> ScenarioParseTomlStr(file_toml.scenario).scenario,
              seed |-> SeedFromStr(file_toml.seed).seed,
              random_variables |-> file_toml.random_variables]

\* gen_norm_rand_toml / gen_norm_rand_controlchart_toml: r.to_toml(fb) for the
\* next result of a batch that succeeded
ToToml ==
    /\ bpc = "done" /\ result.kind = "ok"
    /\ Len(files) < Len(result.list)
    /\ files' = Append(files, ToTomlString(result.list[Len(files) + 1]))
    /\ UNCHANGED <<mode, scenario, num, seeds, bpc, tpc, rngpos, randoms, randoms_dec,
                   ind_outctrl, passes, tret, tape, saved_error, first_done,
                   first_err, result, rs_read, run, conv>>

\* from_toml on the i-th file written
FromToml(i) ==
    /\ i \in 1 .. Len(files)
    /\ rs_read' = [file |-> i, ret |-> ParseTomlStr(files[i])]
    /\ UNCHANGED <<mode, scenario, num, seeds, bpc, tpc, rngpos, randoms, randoms_dec,
                   ind_outctrl, passes, tret, tape, saved_error, first_done,
                   first_err, result, files, run, conv>>

\* --------------------------------------------------- entry points of lib.rs
\* gen_norm_rand_csv, gen_norm_rand_toml, gen_norm_rand_controlchart_csv and
\* gen_norm_rand_controlchart_toml: mode says which batch operation the entry
\* point calls, run.fmt which artifacts it writes. Writes that fail for a
\* reason of the file system are left out.
LibScenarios ==
    { Sc(1, TRUE, <<0>>, <<>>, 2, 0, 0, 0),
      Sc(1, TRUE, <<0>>, <<1>>, 0, 1, 0, 0),
      Sc(1, TRUE, <<0>>, <<>>, 0, 0, 0, 0),
      Sc(1, FALSE, <<0>>, <<0>>, 1, 1, 0, 0) }

EntryPoint(fmt, readable, existed) ==
    [fmt |-> fmt, readable |-> readable, existed |-> existed, pc |-> "start",
     dir |-> FALSE, seed_txt |-> FALSE, ledger |-> <<>>, control_limit |-> FALSE]

InitLib ==
    /\ mode \in {"plain", "chart"}
    /\ scenario \in LibScenarios
    /\ num \in 0 .. MaxNum
    /\ seeds = <<>>
    /\ bpc = "seed"
    /\ tpc = [t \in Tasks |-> "idle"]
    /\ rngpos = [t \in Tasks |-> 0]
    /\ randoms = [t \in Tasks |-> <<>>]
    /\ randoms_dec = [t \in Tasks |-> <<>>]
    /\ ind_outctrl = [t \in Tasks |-> 0]
    /\ passes = [t \in Tasks |-> 0]
    /\ tret = [t \in Tasks |-> None]
    /\ tape = [k \in StreamKeys |-> <<>>]
    /\ saved_error = None
    /\ first_done = 0
    /\ first_err = 0
    /\ result = None
    /\ files = <<>>
    /\ rs_read = None
    /\ run \in {EntryPoint(fmt, readable, existed) :
                    fmt \in {"csv", "toml"}, readable \in BOOLEAN,
                    existed \in BOOLEAN}
    /\ conv = NoConversion

\* Scenario::from_toml(path_scenario)?
ReadScenario ==
    /\ run.pc = "start"
    /\ run' = [run EXCEPT !.pc = IF run.readable THEN "mkdir" ELSE "failed"]
    /\ UNCHANGED <<mode, scenario, num, seeds, bpc, tpc, rngpos, randoms, randoms_dec,
                   ind_outctrl, passes, tret, tape, saved_error, first_done,
                   first_err, result, files, rs_read, conv>>

\* create_dir_all: a directory that exists is no error
CreateDirAllFails(existed) == FALSE

\* create_dir(dir_out) is an Err when dir_out exists
CreateDirFails(existed) == existed

\* if let Err(e) = create_dir(dir_out) { panic!(..) }
CreateDir ==
    /\ run.pc = "mkdir"
    /\ run' = IF CreateDirFails(run.existed)
              THEN [run EXCEPT !.pc = "panicked"]
              ELSE [run EXCEPT !.dir = TRUE,
                               !.pc = IF run.fmt = "csv" THEN "ledger" ELSE "batch"]
    /\ UNCHANGED <<mode, scenario, num, seeds, bpc, tpc, rngpos, randoms, randoms_dec,
                   ind_outctrl, passes, tret, tape, saved_error, first_done,
                   first_err, result, files, rs_read, conv>>

\* csv::Writer::from_path(dir_out.join("seed.txt"))?: the CSV entry points
\* create seed.txt before the batch runs
OpenLedger ==
    /\ run.pc = "ledger"
    /\ run' = [run EXCEPT !.seed_txt = TRUE, !.pc = "batch"]
    /\ UNCHANGED <<mode, scenario, num, seeds, bpc, tpc, rngpos, randoms, randoms_dec,
                   ind_outctrl, passes, tret, tape, saved_error, first_done,
                   first_err, result, files, rs_read, conv>>

\* let randoms = ..._multiple(&scenario, num)?
BatchReturned ==
    /\ run.pc = "batch" /\ bpc = "done"
    /\ run' = [run EXCEPT !.pc = IF result.kind = "ok" THEN "write" ELSE "failed"]
    /\ UNCHANGED <<mode, scenario, num, seeds, bpc, tpc, rngpos, randoms, randoms_dec,
                   ind_outctrl, passes, tret, tape, saved_error, first_done,
                   first_err, result, files, rs_read, conv>>

\* file names numbered from 0
PathsFromZero(n) == [i \in 1 .. n |-> i - 1]

\* (1..num+1) ... format!("{}_{}.csv", filename, i): the i-th path, named by
\* its number
Paths(n) == [i \in 1 .. n |-> i]

\* SeedRecord {file: fb.to_str().unwrap().to_string(), seed: r.get_seed()}
SeedRecord(fb, r) == [file |-> fb, seed |-> r.seed]

\* to_csv: one record per batch, one field per sample
ToCsv(r) ==
    [k \in 1 .. Len(r.random_variables) |->
        [j \in 1 .. Len(r.random_variables[k]) |->
            FloatText(r.random_variables[k][j])]]

\* one iteration of for (r, fb) in randoms.iter().zip(csvs.iter())
WriteArtifact ==
    /\ run.pc = "write"
    /\ Len(files) < Len(result.list) /\ Len(files) < Len(Paths(num))
    /\ LET i == Len(files) + 1
           r == result.list[i]
           fb == Paths(num)[i]
       IN  IF run.fmt = "csv"
           THEN /\ files' = Append(files, ToCsv(r))
                /\ run' = [run EXCEPT !.ledger = Append(@, SeedRecord(fb, r))]
           ELSE /\ files' = Append(files, ToTomlString(r))
                /\ UNCHANGED run
    /\ UNCHANGED <<mode, scenario, num, seeds, bpc, tpc, rngpos, randoms, randoms_dec,
                   ind_outctrl, passes, tret, tape, saved_error, first_done,
                   first_err, result, rs_read, conv>>

\* after the loop: wtr.flush(), and for a control-chart entry point
\* wtr_norm_control_limit(dir_out, &scenario)
Finish ==
    /\ run.pc = "write"
    /\ ~(Len(files) < Len(result.list) /\ Len(files) < Len(Paths(num)))
    /\ run' = [run EXCEPT !.control_limit = (mode = "chart"), !.pc = "done"]
    /\ UNCHANGED <<mode, scenario, num, seeds, bpc, tpc, rngpos, randoms, randoms_dec,
                   ind_outctrl, passes, tret, tape, saved_error, first_done,
                   first_err, result, files, rs_read, conv>>


Next ==
    \/ DrawSeed
    \/ Dispatch
    \/ \E t \in Tasks : GenRandom(t)
    \/ \E t \in Tasks : ChartBegin(t)
    \/ \E t \in Tasks : BaselinePass(t)
    \/ \E t \in Tasks : PreFinalScan(t)
    \/ \E t \in Tasks : PostStep(t)
    \/ \E t \in Tasks : Skip(t)
    \/ Collect

Spec == Init /\ [][Next]_vars

\* One generation (a batch of at most one seed) whose RandomScenario is then
\* written with to_toml and read back with from_toml.
InitOne == Init /\ num <= 1

NextToml ==
    \/ DrawSeed
    \/ Dispatch
    \/ \E t \in Tasks : GenRandom(t)
    \/ \E t \in Tasks : ChartBegin(t)
    \/ \E t \in Tasks : BaselinePass(t)
    \/ \E t \in Tasks : PreFinalScan(t)
    \/ \E t \in Tasks : PostStep(t)
    \/ Collect
    \/ ToToml
    \/ \E i \in Tasks : FromToml(i)

SpecToml == InitOne /\ [][NextToml]_vars

\* One control-chart generation (a batch of at most one seed) that, once
\* started, keeps running: when it can take a step of its second or last
\* phase it eventually takes it (the closure of a task runs on its worker
\* thread until it returns). Nothing is assumed of the first loop.
InitChart == Init /\ mode = "chart" /\ num <= 1

NextChart ==
    \/ DrawSeed
    \/ Dispatch
    \/ \E t \in Tasks : ChartBegin(t)
    \/ \E t \in Tasks : BaselinePass(t)
    \/ \E t \in Tasks : PreFinalScan(t)
    \/ \E t \in Tasks : PostStep(t)
    \/ Collect

SpecChartFair ==
    /\ InitChart /\ [][NextChart]_vars
    /\ \A t \in Tasks : WF_vars(PreFinalScan(t)) /\ WF_vars(PostStep(t))

\* The seed conversions on their own: a seed of any width up to 64 bits is
\* written as to_toml_string writes it, and the text written, or any other
\* text found in the seed field of a file, is read as parse_toml_str reads it.
LimbValues == {0, 32767, 32768, 65535}
SeedValues == [1 .. NumLimbs -> LimbValues]
U64MaxText == <<1, 8, 4, 4, 6, 7, 4, 4, 0, 7, 3, 7, 0, 9, 5, 5, 1, 6, 1, 5>>
SeedTexts ==
    { <<>>, <<10>>, <<11, 1>>, <<1, 12>>, <<12, 1>>, <<1, 11>>,
      <<0>>, <<10, 1>>, <<0, 0, 7>>, <<4, 2>>,
      <<9, 2, 2, 3, 3, 7, 2, 0, 3, 6, 8, 5, 4, 7, 7, 5, 8, 0, 8>>,
      U64MaxText,
      <<0>> \o U64MaxText,
      <<1, 8, 4, 4, 6, 7, 4, 4, 0, 7, 3, 7, 0, 9, 5, 5, 1, 6, 1, 6>>,
      <<1, 8, 4, 4, 6, 7, 4, 4, 0, 7, 3, 7, 0, 9, 5, 5, 1, 6, 2, 0>>,
      <<2, 0, 0, 0, 0, 0, 0, 0, 0, 0, 0, 0, 0, 0, 0, 0, 0, 0, 0, 0>>,
      <<9, 9, 9, 9, 9, 9, 9, 9, 9, 9, 9, 9, 9, 9, 9, 9, 9, 9, 9, 9>>,
      U64MaxText \o <<0>> }

InitSeed ==
    /\ mode = "plain"
    /\ scenario = Sc(1, TRUE, <<0>>, <<1>>, 0, 1, 0, 0)
    /\ num = 0
    /\ seeds = <<>>
    /\ bpc = "seed"
    /\ tpc = [t \in Tasks |-> "idle"]
    /\ rngpos = [t \in Tasks |-> 0]
    /\ randoms = [t \in Tasks |-> <<>>]
    /\ randoms_dec = [t \in Tasks |-> <<>>]
    /\ ind_outctrl = [t \in Tasks |-> 0]
    /\ passes = [t \in Tasks |-> 0]
    /\ tret = [t \in Tasks |-> None]
    /\ tape = [k \in StreamKeys |-> <<>>]
    /\ saved_error = None
    /\ first_done = 0
    /\ first_err = 0
    /\ result = None
    /\ files = <<>>
    /\ rs_read = None
    /\ run = LibraryCall
    /\ conv \in {[seed |-> v, text |-> x, stored |-> None, parsed |-> None] :
                     v \in SeedValues, x \in SeedTexts}

\* let seed = Seed::from_str(&file_toml.seed)?
ParseSeed(text) ==
    IF ~U64FromStr(text).ok THEN [kind |-> "err", error |-> "seed"]
    ELSE [kind |-> "ok", seed |-> U64FromStr(text).value]

\* to_toml_string: format!("seed = \"{}\"...", self.get_seed(), ..)
WriteSeed ==
    /\ conv.stored = None
    /\ conv' = [conv EXCEPT !.stored = [text |-> U64ToString(conv.seed)]]
    /\ UNCHANGED <<mode, scenario, num, seeds, bpc, tpc, rngpos, randoms, randoms_dec,
                   ind_outctrl, passes, tret, tape, saved_error, first_done,
                   first_err, result, files, rs_read, run>>

\* parse_toml_str on the text that was written
ReadStored ==
    /\ conv.stored # None
    /\ conv' = [conv EXCEPT !.parsed = [of |-> "stored", ret |-> ParseSeed(conv.stored.text)]]
    /\ UNCHANGED <<mode, scenario, num, seeds, bpc, tpc, rngpos, randoms, randoms_dec,
                   ind_outctrl, passes, tret, tape, saved_error, first_done,
                   first_err, result, files, rs_read, run>>

\* parse_toml_str on a text found in a file
ReadText ==
    /\ conv' = [conv EXCEPT !.parsed = [of |-> "text", ret |-> ParseSeed(conv.text)]]
    /\ UNCHANGED <<mode, scenario, num, seeds, bpc, tpc, rngpos, randoms, randoms_dec,
                   ind_outctrl, passes, tret, tape, saved_error, first_done,
                   first_err, result, files, rs_read, run>>

NextSeed ==
    \/ WriteSeed
    \/ ReadStored
    \/ ReadText

SpecSeed == InitSeed /\ [][NextSeed]_vars

\* A run of one of the four entry points of lib.rs.
NextLib ==
    \/ ReadScenario
    \/ CreateDir
    \/ OpenLedger
    \/ DrawSeed
    \/ Dispatch
    \/ \E t \in Tasks : GenRandom(t)
    \/ \E t \in Tasks : ChartBegin(t)
    \/ \E t \in Tasks : BaselinePass(t)
    \/ \E t \in Tasks : PreFinalScan(t)
    \/ \E t \in Tasks : PostStep(t)
    \/ \E t \in Tasks : Skip(t)
    \/ Collect
    \/ BatchReturned
    \/ WriteArtifact
    \/ Finish

SpecLib == InitLib /\ [][NextLib]_vars

\* ------------------------------------------------------------- properties
\* what the generation of task t read, recomputed from its stream
InLen == Len(scenario.inctrl)
DecLen == Len(scenario.dec)
TapeOf(t) == tape[seeds[t]]
\* the last baseline pass of task t and the steps drawn after it
BaselineOf(t) ==
    [k \in 1 .. InLen |->
        RandWithN(scenario.inctrl[k], TapeOf(t),
                  (passes[t] - 1) * InLen * scenario.n + (k - 1) * scenario.n,
                  scenario.n)]
PreFinalOf(t) ==
    [k \in 1 .. DecLen |->
        RandWithN(scenario.dec[k], TapeOf(t),
                  passes[t] * InLen * scenario.n + (k - 1) * scenario.n,
                  scenario.n)]
\* the first of the batches bs whose estimate is out of control, 0 if none is
FirstSignal(bs) ==
    LET out == {k \in 1 .. Len(bs) : OutOfControl(scenario, Sum(bs[k]))}
    IN  IF out = {} THEN 0 ELSE CHOOSE k \in out : \A m \in out : k <= m
Returned(t) == t \in 1 .. num /\ tpc[t] \in {"ok", "err"}
Succeeded(t) == t \in 1 .. num /\ tpc[t] = "ok"
Rv(t) == tret[t].random_variables

\* C1: two generations with the same scenario, seed and mode return the same
\* outcome: both succeed with the same sample sequence, or both fail with
\* the same error.
C1_Determinism ==
    \A i, j \in 1 .. num :
        (Returned(i) /\ Returned(j) /\ seeds[i] = seeds[j]) =>
            /\ tret[i].kind = tret[j].kind
            /\ tret[i].kind = "ok" => Rv(i) = Rv(j)
            /\ tret[i].kind = "err" => tret[i].error = tret[j].error

\* two control-chart generations with one seed both returned a sequence, after
\* a rejected baseline pass
C1_Witness ==
    /\ mode = "chart" /\ num >= 2
    /\ Succeeded(1) /\ Succeeded(2) /\ seeds[1] = seeds[2]
    /\ passes[1] >= 2 /\ Len(Rv(1)) >= 2

\* C2: when every task succeeds the batch returns num results, and result i
\* carries the i-th seed drawn, whatever the order the tasks returned in.
C2_BatchOrdering ==
    (bpc = "done" /\ \A t \in 1 .. num : tpc[t] = "ok") =>
        /\ result.kind = "ok"
        /\ Len(result.list) = num
        /\ \A i \in 1 .. num : result.list[i].seed = seeds[i]

\* a batch of two different seeds whose second task returned first
C2_Witness ==
    /\ bpc = "done" /\ num = 2 /\ result.kind = "ok"
    /\ seeds[1] # seeds[2] /\ first_done = 2

\* C3: when a task of the batch returned an error, the batch returns an
\* error, the one of the task that failed first, and no list.
C3_FailFast ==
    (bpc = "done" /\ \E t \in 1 .. num : tpc[t] = "err") =>
        /\ result.kind = "err"
        /\ result.error = tret[first_err]

\* a batch that failed although a task had succeeded, the second task being
\* the first to fail
C3_Witness ==
    /\ bpc = "done" /\ num = 2 /\ result.kind = "err"
    /\ tpc[1] = "ok" /\ tpc[2] = "err"

\* C4: a control-chart sequence whose steps before the last change point
\* contain a signal, the first at step i, is the accepted baseline followed
\* by the steps up to and including i.
C4_EarlyTermination ==
    \A t \in 1 .. num :
        (mode = "chart" /\ Succeeded(t) /\ FirstSignal(PreFinalOf(t)) # 0) =>
            Rv(t) = BaselineOf(t) \o
                    SubSeq(PreFinalOf(t), 1, FirstSignal(PreFinalOf(t)))

\* a sequence cut at the first of two steps before the last change point
C4_Witness ==
    \E t \in 1 .. num :
        /\ mode = "chart" /\ Succeeded(t) /\ DecLen = 2
        /\ FirstSignal(PreFinalOf(t)) = 1
        /\ Len(Rv(t)) = InLen + 1

\* C5: a control-chart sequence with no signal before the last change point
\* holds the baseline, every step before the last change point, and then
\* steps of the last regime, of which the last one and only the last one is
\* out of control.
C5_Detection ==
    \A t \in 1 .. num :
        (mode = "chart" /\ Succeeded(t) /\ FirstSignal(PreFinalOf(t)) = 0) =>
            LET k0 == InLen + DecLen
                last == Len(Rv(t))
            IN  /\ last > k0
                /\ SubSeq(Rv(t), 1, k0) = BaselineOf(t) \o PreFinalOf(t)
                /\ \A k \in (k0 + 1) .. last :
                       Rv(t)[k] = RandWithN(scenario.lastMu, TapeOf(t),
                                            (passes[t] * InLen + DecLen + k - k0 - 1)
                                                * scenario.n,
                                            scenario.n)
                /\ Mle(Rv(t)[last]).ok
                /\ OutOfControl(scenario, Sum(Rv(t)[last]))
                /\ \A k \in (k0 + 1) .. (last - 1) :
                       ~OutOfControl(scenario, Sum(Rv(t)[k]))

\* a sequence that ends at the second step of the last regime
C5_Witness ==
    \E t \in 1 .. num :
        /\ mode = "chart" /\ Succeeded(t) /\ FirstSignal(PreFinalOf(t)) = 0
        /\ Len(Rv(t)) = InLen + DecLen + 2

\* C6: the leading baseline of a control-chart sequence is the last baseline
\* pass and every step of it is in control.
C6_BaselineInControl ==
    \A t \in 1 .. num :
        (mode = "chart" /\ Succeeded(t)) =>
            /\ Len(Rv(t)) >= InLen
            /\ SubSeq(Rv(t), 1, InLen) = BaselineOf(t)
            /\ \A k \in 1 .. InLen :
                   Mle(Rv(t)[k]).ok /\ InControl(scenario, Mle(Rv(t)[k]).est)

\* a sequence with a baseline of two steps, returned after a rejected pass
C6_Witness ==
    \E t \in 1 .. num :
        /\ mode = "chart" /\ Succeeded(t) /\ InLen = 2 /\ passes[t] >= 2

\* C7: a sequence of the unconditional mode has one batch per step of the
\* decomposition, the k-th batch drawn with the k-th parameter.
C7_ShapeUnconditional ==
    \A t \in 1 .. num :
        (mode = "plain" /\ Succeeded(t)) =>
            LET ps == Decomplession(scenario).params
            IN  /\ Len(Rv(t)) = Len(ps)
                /\ \A k \in 1 .. Len(ps) :
                       Rv(t)[k] = RandWithN(ps[k], TapeOf(t), (k - 1) * scenario.n,
                                            scenario.n)

\* an unconditional sequence over a decomposition of three steps with
\* different parameters
C7_Witness ==
    \E t \in 1 .. num :
        /\ mode = "plain" /\ Succeeded(t) /\ Len(Rv(t)) = 3
        /\ scenario.lastMu # scenario.inctrl[1]

\* C8: every batch of every sequence, returned or being built, in either
\* mode, has n samples.
C8_BatchSize ==
    \A t \in 1 .. num :
        /\ \A k \in 1 .. Len(randoms[t]) : Len(randoms[t][k]) = scenario.n
        /\ \A k \in 1 .. Len(randoms_dec[t]) : Len(randoms_dec[t][k]) = scenario.n
        /\ Succeeded(t) => \A k \in 1 .. Len(Rv(t)) : Len(Rv(t)[k]) = scenario.n

\* a control-chart sequence of batches of two samples that reaches the last
\* regime
C8_Witness ==
    \E t \in 1 .. num :
        /\ mode = "chart" /\ Succeeded(t) /\ scenario.n = 2
        /\ Len(Rv(t)) > InLen + DecLen

\* C9 as stated: a generation that succeeds returns at least one batch.
C9_NonEmptyAlways ==
    \A t \in 1 .. num : Succeeded(t) => Len(Rv(t)) >= 1

\* C9, amended: a control-chart generation that succeeds returns at least
\* one batch; an unconditional one returns at least one batch exactly when the
\* decomposition has at least one step.
C9_NonEmpty ==
    \A t \in 1 .. num :
        Succeeded(t) =>
            IF mode = "chart" THEN Len(Rv(t)) >= 1
            ELSE (Len(Rv(t)) >= 1) <=> (Len(Decomplession(scenario).params) >= 1)

\* an unconditional generation over a decomposition without steps succeeded
C9_Witness ==
    \E t \in 1 .. num :
        /\ mode = "plain" /\ Succeeded(t)
        /\ Len(Decomplession(scenario).params) = 0

\* C10: a file written by to_toml, read by from_toml, gives back the
\* RandomScenario that was written: same scenario, same seed, same samples.
C10_RoundTrip ==
    rs_read # None =>
        /\ rs_read.ret.kind = "ok"
        /\ rs_read.ret.scenario = result.list[rs_read.file].scenario
        /\ rs_read.ret.seed = result.list[rs_read.file].seed
        /\ rs_read.ret.random_variables = result.list[rs_read.file].random_variables

\* a control-chart sequence of several batches of two samples, of a seed
\* other than 0, was written and read back
C10_Witness ==
    /\ rs_read # None /\ mode = "chart"
    /\ result.list[rs_read.file].seed = 1
    /\ result.list[rs_read.file].scenario.n = 2
    /\ Len(result.list[rs_read.file].random_variables) >= 2

\* C11: when the output directory exists before the run of an entry point,
\* the run never gets past the creation of the directory: no seed is drawn,
\* no task starts, and no artifact, ledger or report is written.
C11_OutputPrecondition ==
    run.existed =>
        /\ run.pc \in {"start", "mkdir", "failed", "panicked"}
        /\ seeds = <<>> /\ bpc = "seed"
        /\ \A t \in Tasks : tpc[t] = "idle" /\ rngpos[t] = 0
        /\ files = <<>> /\ run.ledger = <<>>
        /\ ~run.dir /\ ~run.seed_txt /\ ~run.control_limit

\* a run for two sequences over a readable scenario has aborted on the
\* directory that exists
C11_Witness ==
    /\ run.existed /\ run.readable /\ run.pc = "panicked" /\ num = 2

\* C12 as stated: after a successful run of any entry point the ledger has
\* one record per result, the i-th pairing file i with the seed of the i-th
\* result.
C12_LedgerEveryEntryPoint ==
    run.pc = "done" =>
        /\ Len(run.ledger) = Len(result.list)
        /\ \A i \in 1 .. Len(result.list) :
               run.ledger[i] = [file |-> i, seed |-> result.list[i].seed]

\* C12, amended: after a successful run of a CSV entry point there are num
\* artifacts and the ledger has one record per artifact, the i-th pairing
\* file i with the seed of the i-th result; while a CSV entry point writes,
\* there are as many records as artifacts. A TOML entry point writes no
\* ledger: each of its artifacts holds the seed of its result.
C12_SeedLedger ==
    /\ run.fmt = "csv" => Len(run.ledger) = Len(files)
    /\ (run.pc = "done" /\ run.fmt = "csv") =>
           /\ Len(files) = num /\ Len(result.list) = num
           /\ Len(run.ledger) = num
           /\ \A i \in 1 .. num :
                  run.ledger[i] = [file |-> i, seed |-> result.list[i].seed]
    /\ run.fmt = "toml" => (run.ledger = <<>> /\ ~run.seed_txt)
    /\ (run.pc = "done" /\ run.fmt = "toml") =>
           /\ Len(files) = num /\ Len(result.list) = num
           /\ \A i \in 1 .. num :
                  /\ ParseTomlStr(files[i]).kind = "ok"
                  /\ ParseTomlStr(files[i]).seed = result.list[i].seed

\* a CSV run for two sequences with different seeds has finished
C12_Witness ==
    /\ run.pc = "done" /\ run.fmt = "csv" /\ num = 2
    /\ Len(run.ledger) = 2 /\ run.ledger[1].seed # run.ledger[2].seed

\* C13 as stated: when a task fails, every other task of the batch, started
\* or not, still runs to completion.
C13_AllTasksComplete ==
    bpc = "done" => \A t \in 1 .. num : tpc[t] \in {"ok", "err"}

\* C13, amended: a task that has started is never interrupted: the batch
\* returns only when every started task has returned, and a task that was
\* dropped had not started (it had read nothing and held nothing).
C13_NoCancellation ==
    /\ bpc = "done" => \A t \in 1 .. num : tpc[t] \in {"ok", "err", "skipped"}
    /\ \A t \in 1 .. num :
           tpc[t] = "skipped" =>
               /\ saved_error # None
               /\ passes[t] = 0 /\ rngpos[t] = 0 /\ ind_outctrl[t] = 0
               /\ randoms[t] = <<>> /\ randoms_dec[t] = <<>> /\ tret[t] = None

\* the batch returned an error; the task that failed was the first to
\* return, and another task returned its sequence after it
C13_Witness ==
    /\ bpc = "done" /\ result.kind = "err"
    /\ \E t, u \in 1 .. num :
           /\ t # u /\ first_done = t /\ first_err = t
           /\ tpc[u] = "ok"

\* C14: the counter of the last phase is the number of steps the phase has
\* drawn, so the first step asks for index 1 and each step for one more; a
\* generation that fails on an index outside the range has asked for the
\* index after the last one defined, no step before it signalled, and it
\* returns the error without a sequence.
C14_IndexRange ==
    \A t \in 1 .. num :
        mode = "chart" =>
            /\ tpc[t] = "post" =>
                   ind_outctrl[t] = Len(randoms[t]) - InLen - DecLen
            /\ (tpc[t] = "err" /\ tret[t].error = "range") =>
                   /\ ind_outctrl[t] = scenario.lastLen + 1
                   /\ Len(randoms[t]) = InLen + DecLen + scenario.lastLen
                   /\ rngpos[t] = (passes[t] * InLen + DecLen + scenario.lastLen)
                                      * scenario.n
                   /\ \A k \in (InLen + 1) .. Len(randoms[t]) :
                          InControl(scenario, Sum(randoms[t][k]))
                   /\ "random_variables" \notin DOMAIN tret[t]

\* a generation failed on index 3 after two steps of the last phase
C14_Witness ==
    \E t \in 1 .. num :
        /\ mode = "chart" /\ tpc[t] = "err" /\ tret[t].error = "range"
        /\ ind_outctrl[t] = 3 /\ Len(randoms[t]) = InLen + DecLen + 2

\* the batches a control-chart step of task t draws: those of parameters ps,
\* read from the stream after the step, from where the stream stood before it
StepBatches(t, ps) ==
    [k \in 1 .. Len(ps) |->
        RandWithN(ps[k], tape'[seeds[t]], rngpos[t] + (k - 1) * scenario.n,
                  scenario.n)]
Terminal(t) == tpc[t] \in {"ok", "err", "skipped"}

\* C15: in each of the three phases a step whose estimation fails ends the
\* generation with the estimation error, and a generation that has ended
\* with an error draws nothing more and never changes its outcome.
C15_EstimationFatal ==
    [][\A t \in 1 .. num :
          /\ (tpc[t] = "baseline" /\ passes'[t] # passes[t]
                  /\ ~MleAll(StepBatches(t, scenario.inctrl)).ok) =>
                 (tpc'[t] = "err" /\ tret'[t].error = "mle")
          /\ (tpc[t] = "prefinal" /\ tpc'[t] # "prefinal"
                  /\ ~MleAll(StepBatches(t, scenario.dec)).ok) =>
                 (tpc'[t] = "err" /\ tret'[t].error = "mle")
          /\ (tpc[t] = "post" /\ ind_outctrl'[t] # ind_outctrl[t]
                  /\ ind_outctrl'[t] <= scenario.lastLen
                  /\ ~MleAll(StepBatches(t, <<scenario.lastMu>>)).ok) =>
                 (tpc'[t] = "err" /\ tret'[t].error = "mle")
          /\ tpc[t] = "err" =>
                 /\ tpc'[t] = "err" /\ tret'[t] = tret[t]
                 /\ rngpos'[t] = rngpos[t] /\ passes'[t] = passes[t]
                 /\ randoms'[t] = randoms[t]]_vars

\* a generation ended with the estimation error on its first baseline pass
C15_Witness ==
    \E t \in 1 .. num :
        /\ mode = "chart" /\ tpc[t] = "err" /\ tret[t].error = "mle"
        /\ InLen >= 1 /\ passes[t] = 1
        /\ randoms_dec[t] = <<>> /\ ind_outctrl[t] = 0

PhaseRank(pc) ==
    CASE pc = "idle" -> 0
      [] pc = "baseline" -> 1
      [] pc = "prefinal" -> 2
      [] pc = "post" -> 3
      [] OTHER -> 4

\* C16: a generation never moves back to an earlier phase and never leaves
\* its end; it enters the second phase only from the first, with a pass whose
\* steps are all in control; it enters the last phase only from the second,
\* when no step of the second signalled; and when a step of the second phase
\* signals it returns at once: no index is asked for and nothing more is drawn.
C16_PhaseOrdering ==
    [][\A t \in 1 .. num :
          /\ PhaseRank(tpc'[t]) >= PhaseRank(tpc[t])
          /\ Terminal(t) => (tpc'[t] = tpc[t] /\ rngpos'[t] = rngpos[t])
          /\ (tpc'[t] = "prefinal" /\ tpc[t] # "prefinal") =>
                 /\ tpc[t] = "baseline"
                 /\ \A k \in 1 .. InLen :
                        InControl(scenario, Sum(StepBatches(t, scenario.inctrl)[k]))
          /\ (tpc'[t] = "post" /\ tpc[t] # "post") =>
                 /\ tpc[t] = "prefinal"
                 /\ FirstSignal(StepBatches(t, scenario.dec)) = 0
          /\ (tpc[t] = "prefinal" /\ tpc'[t] # "prefinal"
                  /\ MleAll(StepBatches(t, scenario.dec)).ok
                  /\ FirstSignal(StepBatches(t, scenario.dec)) # 0) =>
                 /\ tpc'[t] = "ok"
                 /\ ind_outctrl'[t] = 0
                 /\ rngpos'[t] = rngpos[t] + DecLen * scenario.n]_vars

\* a generation returned from the second phase, on the signal of its second
\* step, after a rejected baseline pass
C16_Witness ==
    \E t \in 1 .. num :
        /\ mode = "chart" /\ tpc[t] = "ok" /\ ind_outctrl[t] = 0
        /\ passes[t] >= 2 /\ Len(Rv(t)) = InLen + 2

\* C17: a generation reads one stream, the one of its seed, and the stream
\* is never started again: what a stream has produced is never changed, the
\* position of a generation never decreases, and every draw of every phase
\* reads its steps in order from the position the draw before it left.
C17_SingleStream ==
    [][/\ \A key \in StreamKeys :
              /\ Len(tape'[key]) >= Len(tape[key])
              /\ SubSeq(tape'[key], 1, Len(tape[key])) = tape[key]
       /\ \A t \in 1 .. Len(seeds) :
              /\ rngpos'[t] >= rngpos[t]
              /\ Len(tape'[seeds[t]]) >= rngpos'[t]
              /\ (mode = "chart" /\ passes'[t] # passes[t]) =>
                     /\ randoms'[t] = StepBatches(t, scenario.inctrl)
                     /\ rngpos'[t] = rngpos[t] + InLen * scenario.n
              /\ (tpc[t] = "prefinal" /\ tpc'[t] # "prefinal") =>
                     /\ rngpos'[t] = rngpos[t] + DecLen * scenario.n
                     /\ tpc'[t] = "post" =>
                            randoms'[t] = randoms[t] \o StepBatches(t, scenario.dec)
              /\ (tpc[t] = "post" /\ randoms'[t] # randoms[t]) =>
                     /\ randoms'[t] =
                            randoms[t] \o StepBatches(t, <<scenario.lastMu>>)
                     /\ rngpos'[t] = rngpos[t] + scenario.n]_vars

\* a generation that drew in all three phases, twice in the first
C17_Witness ==
    \E t \in 1 .. num :
        /\ mode = "chart" /\ tpc[t] = "ok" /\ passes[t] >= 2
        /\ DecLen = 2 /\ ind_outctrl[t] = 1

\* C18: while a generation is in its first phase or has just left it, the
\* working sequence is exactly the most recent baseline pass: one batch per
\* in-control step, read from the stream positions after those of the passes
\* before it, and nothing of an earlier pass.
C18_BaselineDiscard ==
    \A t \in 1 .. num :
        (mode = "chart" /\ tpc[t] \in {"baseline", "prefinal"} /\ passes[t] >= 1) =>
            /\ Len(randoms[t]) = InLen
            /\ randoms[t] = BaselineOf(t)
            /\ rngpos[t] = passes[t] * InLen * scenario.n

\* a second pass of two steps was rejected too
C18_Witness ==
    \E t \in 1 .. num :
        /\ mode = "chart" /\ tpc[t] = "baseline" /\ passes[t] = 2 /\ InLen = 2
        /\ ~InControlAll(scenario, MleAll(randoms[t]).ests)

\* C19: whatever the number of passes made before it, a baseline pass ends
\* the generation only when its estimation fails; a pass with an estimate out
\* of control is followed by another pass, and a pass in control by the
\* second phase.
C19_NoRetryCap ==
    \A t \in 1 .. num :
        (/\ mode = "chart" /\ passes[t] >= 1
         /\ tpc[t] \in {"baseline", "prefinal", "err"}
         /\ randoms_dec[t] = <<>> /\ ind_outctrl[t] = 0) =>
            LET m == MleAll(randoms[t])
            IN  tpc[t] = IF ~m.ok THEN "err"
                         ELSE IF \A k \in 1 .. Len(m.ests) :
                                     InControl(scenario, m.ests[k])
                              THEN "prefinal"
                              ELSE "baseline"

\* the pass after as many rejected passes as a generation is followed for
\* was accepted
C19_Witness ==
    \E t \in 1 .. num :
        /\ mode = "chart" /\ tpc[t] = "prefinal" /\ passes[t] = MaxPasses
        /\ InLen >= 1

\* C20: a task has started only when the batch has drawn its num seeds, and
\* the seeds do not change from then on; no stream other than those of the
\* seeds is ever read.
C20_SeedsBeforeDispatch ==
    /\ bpc # "seed" => Len(seeds) = num
    /\ \A t \in Tasks : tpc[t] # "idle" => (bpc # "seed" /\ t <= Len(seeds))
    /\ \A t \in 1 .. num : tret[t] # None /\ tret[t].kind = "ok" =>
                               tret[t].seed = seeds[t]
    /\ \A t \in Tasks : tape[0 - t] = <<>>

\* two seeds are drawn and a task runs
C20_Witness ==
    /\ num = 2 /\ Len(seeds) = 2 /\ bpc = "par"
    /\ \E t \in 1 .. num : tpc[t] \notin {"idle", "skipped"}

\* C21: whatever the order in which the tasks of a batch ran, when the batch
\* returns every task that returned has returned what the generation of its
\* seed returns on its own: the same sequence, or the same error; and the
\* result at position i of a batch that succeeded is the RandomScenario of
\* the scenario, the i-th seed and that sequence.
C21_TaskIsolation ==
    /\ \A t \in 1 .. num :
           (bpc = "done" /\ Returned(t)) =>
               LET alone == Alone(mode, scenario, TapeOf(t))
               IN  /\ tret[t].kind = alone.kind
                   /\ tret[t].kind = "ok" =>
                          Rv(t) = alone.random_variables
                   /\ tret[t].kind = "err" => tret[t].error = alone.error
    /\ (bpc = "done" /\ result.kind = "ok") =>
           \A i \in 1 .. num :
               result.list[i] =
                   [kind |-> "ok", scenario |-> scenario, seed |-> seeds[i],
                    random_variables |->
                        Alone(mode, scenario, tape[seeds[i]]).random_variables]

\* a control-chart batch of two succeeded; its second task returned first,
\* its first task after a rejected baseline pass, and the two sequences are
\* of different lengths
C21_Witness ==
    /\ bpc = "done" /\ result.kind = "ok" /\ mode = "chart" /\ num = 2
    /\ first_done = 2 /\ passes[1] >= 2
    /\ Len(result.list[1].random_variables) # Len(result.list[2].random_variables)

\* C22: a control-chart generation whose baseline is accepted always ends,
\* with a sequence or with an error; in its last loop the counter never
\* passes the last index the scenario defines before the generation ends.
C22_Termination ==
    /\ [](\A t \in Tasks : tpc[t] = "post" => ind_outctrl[t] <= scenario.lastLen)
    /\ \A t \in Tasks : (tpc[t] = "prefinal") ~> (tpc[t] \in {"ok", "err"})

\* a generation whose last loop ran over both indices the scenario defines
\* has ended on the index after them
C22_Witness ==
    \E t \in 1 .. num :
        /\ mode = "chart" /\ tpc[t] = "err" /\ tret[t].error = "range"
        /\ scenario.lastLen = 2 /\ ind_outctrl[t] = 3 /\ passes[t] >= 2

\* C23: an entry point writes artifacts, ledger records and the control-limit
\* report only when its batch has returned all its results; when a task has
\* failed none of them is ever written, and a run that ended on the failure
\* of its batch leaves the directory it created and, for CSV, a seed.txt
\* without records.
C23_NothingOnFailure ==
    /\ (files # <<>> \/ run.ledger # <<>> \/ run.control_limit) =>
           /\ bpc = "done" /\ result.kind = "ok"
           /\ \A t \in 1 .. num : tpc[t] = "ok"
    /\ (\E t \in 1 .. num : tpc[t] = "err") =>
           /\ files = <<>> /\ run.ledger = <<>> /\ ~run.control_limit
           /\ run.pc \in {"batch", "failed"}
    /\ (run.pc = "failed" /\ run.readable) =>
           /\ result.kind = "err"
           /\ run.dir /\ (run.seed_txt <=> run.fmt = "csv")
           /\ files = <<>> /\ run.ledger = <<>> /\ ~run.control_limit

\* a CSV control-chart run ended on the failure of one task of its batch,
\* after the other task had returned a sequence
C23_Witness ==
    /\ run.pc = "failed" /\ run.fmt = "csv" /\ mode = "chart" /\ num = 2
    /\ \E t, u \in 1 .. num : tpc[t] = "ok" /\ tpc[u] = "err"

\* the digits of a text without its leading zeros, one zero kept
RECURSIVE StripZeros(_)
StripZeros(ds) ==
    IF Len(ds) > 1 /\ Head(ds) = 0 THEN StripZeros(Tail(ds)) ELSE ds
\* a <= b for two digit sequences of one length
RECURSIVE DigitsLeq(_, _)
DigitsLeq(a, b) ==
    IF a = <<>> THEN TRUE
    ELSE IF Head(a) # Head(b) THEN Head(a) < Head(b)
    ELSE DigitsLeq(Tail(a), Tail(b))
\* what is left of a text after one leading '+'
Unsigned(text) == IF text # <<>> /\ Head(text) = 10 THEN Tail(text) ELSE text
\* a decimal numeral of a value up to 18446744073709551615
IsU64Text(text) ==
    LET body == Unsigned(text)
    IN  /\ body # <<>>
        /\ \A k \in 1 .. Len(body) : body[k] \in 0 .. 9
        /\ \/ Len(StripZeros(body)) < Len(U64MaxText)
           \/ /\ Len(StripZeros(body)) = Len(U64MaxText)
              /\ DigitsLeq(StripZeros(body), U64MaxText)

\* C24: the text written for a seed is a decimal numeral, and reading it
\* gives back the seed, for seeds of every width up to 64 bits; reading any
\* text gives a seed exactly when the text is a decimal numeral of a value
\* that fits 64 bits, the seed of that value, and an error otherwise.
C24_SeedAsText ==
    /\ conv.stored # None =>
           /\ \A k \in 1 .. Len(conv.stored.text) : conv.stored.text[k] \in 0 .. 9
           /\ conv.stored.text = StripZeros(conv.stored.text)
           /\ IsU64Text(conv.stored.text)
    /\ (conv.parsed # None /\ conv.parsed.of = "stored") =>
           conv.parsed.ret = [kind |-> "ok", seed |-> conv.seed]
    /\ (conv.parsed # None /\ conv.parsed.of = "text") =>
           IF IsU64Text(conv.text)
           THEN /\ conv.parsed.ret.kind = "ok"
                /\ U64ToString(conv.parsed.ret.seed) = StripZeros(Unsigned(conv.text))
           ELSE conv.parsed.ret.kind = "err"

\* the largest seed was written as 18446744073709551615 and read back, in a
\* run whose other text is the numeral of the value after it
C24_Witness ==
    /\ conv.seed = [k \in 1 .. NumLimbs |-> 65535]
    /\ conv.stored = [text |-> U64MaxText]
    /\ conv.parsed # None /\ conv.parsed.of = "stored" /\ conv.parsed.ret.kind = "ok"
    /\ conv.text = <<1, 8, 4, 4, 6, 7, 4, 4, 0, 7, 3, 7, 0, 9, 5, 5, 1, 6, 1, 6>>

====
